---------------------------- MODULE Spec2Model ----------------------------
(***************************************************************************)
(* A model of vskani (skani-vMAG): the command line front end, the skani   *)
(* runner, the edge-weight preprocessor, the mcl runner and the cluster    *)
(* summarizer.                                                             *)
(*                                                                         *)
(* Five specifications share the module:                                   *)
(*   Spec     the orchestration of one run of a command (vskani.main and   *)
(*            the standalone skani-vMAG.py script): argument parsing, the  *)
(*            external tool invocations and the files they read and write; *)
(*   SpecPre  SkaniPreprocessor on a concrete similarity table;            *)
(*   SpecSum  ClusterSummarizer on a concrete similarity table and a       *)
(*            concrete clusters file;                                      *)
(*   SpecCat  the concatenation loop of the skani runner on concrete       *)
(*            result tables;                                               *)
(*   SpecScr  the packaged preprocessor and the stand-alone preprocess.py  *)
(*            on the same similarity table and thresholds.                 *)
(*                                                                         *)
(* Numbers: a threshold given on the command line as a fraction is the     *)
(* integer k standing for k/Den; percentages of the similarity table are   *)
(* integers.  A fraction multiplied by 100 is kept as the numerator k*100  *)
(* over Den, and an edge weight as a numerator over scale = 100**2.        *)
(***************************************************************************)
EXTENDS Integers, Sequences, FiniteSets, TLC

VARIABLES
    \* ---- orchestration (Spec)
    command,        \* the subcommand; "script" is the standalone skani-vMAG.py
    ap_args,        \* the argparse Namespace: flag name -> value
    PATH,           \* the external binaries found on $PATH
    pc,             \* position of the run
    args,           \* main.Args: the three optional bundles
    results,        \* skani main: the per-mode result files so far
    calls,          \* the external tool invocations made so far, in order
    files,          \* the file system: path -> kind of content
    reads,          \* which file each in-process stage was given to read
    environ,        \* os.environ entries set by the run
    exc,            \* the exception that ended the run, or "none"
    \* ---- preprocessor (SpecPre)
    preprocessing,  \* PreprocessingArgs: min_ani, min_cov
    input_table,    \* the similarity table as read from the file
    data,           \* SkaniPreprocessor.data
    edge_list,      \* the rows written by SkaniPreprocessor.save
    \* ---- summarizer (SpecSum)
    clusters_file,  \* the lines of the clusters file, each a list of members
    skani_table,    \* the similarity table given to the summarizer
    ani_data,       \* ClusterSummarizer.ani_data
    summary,        \* the rows written by summarize_and_save
    \* ---- concatenation of the result tables (SpecCat)
    tables,         \* the lines of the per-mode result files, in the order of results
    copied,         \* how many of them the copy loop has been through (and removed)
    combined,       \* the lines of the concatenated file
    \* ---- the stand-alone preprocess.py (SpecScr)
    script_args,    \* its Args: min_ani, min_cov
    script_output   \* the rows it writes

ovars == <<command, ap_args, PATH, pc, args, results, calls, files, reads,
           environ, exc>>
pvars == <<preprocessing, input_table, data, edge_list>>
svars == <<clusters_file, skani_table, ani_data, summary>>
cvars == <<tables, copied, combined>>
xvars == <<script_args, script_output>>
vars  == <<command, ap_args, PATH, pc, args, results, calls, files, reads,
           environ, exc, preprocessing, input_table, data, edge_list,
           clusters_file, skani_table, ani_data, summary,
           tables, copied, combined, script_args, script_output>>

-----------------------------------------------------------------------------
(* Bounds of the model *)

\* thresholds on the command line are multiples of 1/Den
Den == 2
\* rows of a similarity table
MaxRows == 2
\* lines of a clusters file
MaxLines == 2

-----------------------------------------------------------------------------
(* Optional values, paths *)

None == <<>>
Some(x) == <<x>>
Get(o) == o[1]

\* a pathlib.Path: directory, stem and suffix of the last component
Path(d, s, e) == [dir |-> d, stem |-> s, ext |-> e]

\* the current working directory, and a relative path taken from it
Cwd == "."
Rel(s, e) == Path(Cwd, s, e)

\* Path.joinpath(dir, p): an absolute p replaces dir, a relative one is put under it
joinpath(d, p) == IF p.dir = Cwd THEN [p EXCEPT !.dir = d] ELSE p

\* Path.with_suffix
with_suffix(p, e) == [p EXCEPT !.ext = e]

Put(f, p, kind) == [q \in DOMAIN f \cup {p} |-> IF q = p THEN kind ELSE f[q]]
Remove(f, p) == [q \in DOMAIN f \ {p} |-> f[q]]
Exists(f, p) == p \in DOMAIN f


-----------------------------------------------------------------------------
(* The command line: vskani.main.parse_args and the registered callbacks *)

Commands == {"skani", "mcl", "summarize", "all"}

\* flags added by vskani.skani._cli.add_args
SkaniFlags ==
    {"contigs", "vmag_dir", "ext", "outdir", "output",
     "compression_factor", "marker", "screen", "min_af", "threads",
     "command_log", "log",
     "output_processed", "min_ani", "min_cov"}

\* flags added by vskani.mcl._cli.add_args
MclFlags(add_input) ==
    (IF add_input THEN {"input"} ELSE {}) \cup {"mcl_output", "inflation"}

\* flags added by vskani.mcl.utils.add_args
SummaryFlags(add_input) ==
    IF add_input THEN {"input", "threads", "mcl_output", "output"}
    ELSE {"summary_output"}

\* the flags each subparser of main.parse_args defines
FlagsOf(cmd) ==
    CASE cmd = "skani"     -> SkaniFlags
      [] cmd = "mcl"       -> MclFlags(TRUE)
      [] cmd = "summarize" -> SummaryFlags(TRUE)
      [] cmd = "all"       -> SkaniFlags \cup MclFlags(FALSE) \cup SummaryFlags(FALSE)
      [] cmd = "script"    -> SkaniFlags \ {"output_processed", "min_ani", "min_cov"}

\* a variant that finds no attribute
hasattr_never(ns, f) == FALSE

hasattr(ns, f) == f \in DOMAIN ns

\* check_range: no error exactly when minval <= value <= maxval
check_range_strict(value, minval, maxval) == minval < value /\ value < maxval
check_range(value, minval, maxval) == minval <= value /\ value <= maxval

\* PreprocessingArgs.__post_init__: the range check against (0.0, 1.0), then
\* both thresholds times 100.  Fractions are numerators over Den.
PreprocessingArgs(min_ani, min_cov) ==
    IF check_range(min_ani, 0, Den) /\ check_range(min_cov, 0, Den)
    THEN [raise |-> "none", min_ani |-> min_ani * 100, min_cov |-> min_cov * 100]
    ELSE [raise |-> "ValueError", min_ani |-> min_ani, min_cov |-> min_cov]

\* VSkaniArgs.__post_init__: one of --contigs, --vmag-dir is required
VSkaniArgs_post_init(io) ==
    IF io.contigs = None /\ io.vmag_dir = None THEN "RuntimeError" ELSE "none"

\* vskani.skani._cli.parse_args: None on AttributeError, any other exception
\* propagates
skani_parse_args(ns) ==
    IF ~ (SkaniFlags \subseteq DOMAIN ns)
    THEN [raise |-> "none", val |-> None]
    ELSE LET io == [contigs |-> ns["contigs"], vmag_dir |-> ns["vmag_dir"],
                    outdir |-> ns["outdir"], skani_output |-> ns["output"],
                    processed_output |-> ns["output_processed"],
                    ext |-> ns["ext"]]
             sk == [compression_factor |-> ns["compression_factor"],
                    marker |-> ns["marker"], screen |-> ns["screen"],
                    min_af |-> ns["min_af"]]
             lg == [command_log |-> joinpath(ns["outdir"], ns["command_log"]),
                    log |-> joinpath(ns["outdir"], ns["log"])]
             pp == PreprocessingArgs(ns["min_ani"], ns["min_cov"])
         IN  IF pp.raise # "none"
             THEN [raise |-> pp.raise, val |-> None]
             ELSE IF VSkaniArgs_post_init(io) # "none"
             THEN [raise |-> VSkaniArgs_post_init(io), val |-> None]
             ELSE [raise |-> "none",
                   val |-> Some([io |-> io, skani |-> sk, logger |-> lg,
                                 preprocessing |-> [min_ani |-> pp.min_ani,
                                                    min_cov |-> pp.min_cov],
                                 threads |-> ns["threads"]])]

\* MclArgs and its __post_init__
MclArgs(input, output, inflation) ==
    [input |-> input, output |-> output, inflation |-> inflation,
     tabfile |-> with_suffix(input, ".mcxload"),
     matfile |-> with_suffix(input, ".mci")]

\* vskani.mcl._cli.parse_args
mcl_parse_args(ns) ==
    IF hasattr(ns, "output_processed")
    THEN IF {"mcl_output", "inflation"} \subseteq DOMAIN ns
         THEN Some(MclArgs(ns["output_processed"], ns["mcl_output"], ns["inflation"]))
         ELSE None
    ELSE IF {"input", "mcl_output", "inflation"} \subseteq DOMAIN ns
         THEN Some(MclArgs(ns["input"], ns["mcl_output"], ns["inflation"]))
         ELSE None

\* vskani.mcl.utils.parse_args
summary_parse_args(ns) ==
    IF hasattr(ns, "output_processed")
    THEN IF {"output", "summary_output", "mcl_output", "threads"} \subseteq DOMAIN ns
         THEN Some([skani_input |-> ns["output"], mcl_output |-> ns["mcl_output"],
                    output |-> ns["summary_output"], threads |-> ns["threads"]])
         ELSE None
    ELSE IF {"input", "output", "mcl_output", "threads"} \subseteq DOMAIN ns
         THEN Some([skani_input |-> ns["input"], mcl_output |-> ns["mcl_output"],
                    output |-> ns["output"], threads |-> ns["threads"]])
         ELSE None

NoArgs == [skani |-> None, mcl |-> None, summary |-> None]

-----------------------------------------------------------------------------
(* The inputs of a run *)

Binaries == {"skani", "mcxload", "mcl"}

\* values of --threads tried
ThreadValues == {4, 15}

\* values of --outdir tried: the working directory (the default) and another
OutdirValues == {Cwd, "out"}

\* values of --min-ani and --min-cov tried: -1/Den .. (Den+1)/Den
FractionValues == (0 - 1) .. (Den + 1)

ContigsFile == Path("/data", "contigs", ".fna")
VmagDir == Path("/data", "vmags", "")

\* every flag a subparser can define, with the value the user gave or the
\* default of add_argument
AllFlags(contigs, vmag_dir, outdir, min_ani, min_cov, threads) ==
    [contigs |-> contigs, vmag_dir |-> vmag_dir, ext |-> ".fna",
     outdir |-> outdir, output |-> Rel("skani_ANI", ".tsv"),
     compression_factor |-> 125, marker |-> 1000, screen |-> 80, min_af |-> 15,
     threads |-> threads,
     command_log |-> Rel("commands", ".log"), log |-> Rel("skani", ".log"),
     output_processed |-> Rel("skani_processed", ".tsv"),
     min_ani |-> min_ani, min_cov |-> min_cov,
     input |-> Rel("input", ".tsv"),
     mcl_output |-> Rel("dereplicated_virus", ".clusters"),
     inflation |-> 2,
     summary_output |-> Rel("ani_per_cluster", ".tsv")]

\* argparse: the Namespace of a subcommand holds exactly the flags its
\* subparser defines; -o of "summarize" is the summary file
Namespace(cmd, all) ==
    [f \in FlagsOf(cmd) |->
        IF cmd = "summarize" /\ f = "output" THEN all["summary_output"]
        ELSE all[f]]

\* the files the user supplies: the required -i (and -mo) of "mcl" and "summarize"
InputFiles(cmd, ns) ==
    CASE cmd = "mcl" -> [q \in {ns["input"]} |-> "edges"]
      [] cmd = "summarize" ->
            [q \in {ns["input"], ns["mcl_output"]} |->
                IF q = ns["input"] THEN "similarity" ELSE "clusters"]
      [] OTHER -> [q \in {} |-> "none"]

PreIdle ==
    /\ preprocessing = [min_ani |-> 0, min_cov |-> 0]
    /\ input_table = <<>>
    /\ data = <<>>
    /\ edge_list = <<>>

SumIdle ==
    /\ clusters_file = <<>>
    /\ skani_table = <<>>
    /\ ani_data = <<>>
    /\ summary = <<>>

ScrIdle ==
    /\ script_args = [min_ani |-> 0, min_cov |-> 0]
    /\ script_output = <<>>

CatIdle ==
    /\ tables = <<>>
    /\ copied = 0
    /\ combined = <<>>

Init ==
    /\ command \in Commands \cup {"script"}
    /\ \E contigs \in {None, Some(ContigsFile)},
          vmag_dir \in {None, Some(VmagDir)},
          outdir \in OutdirValues,
          min_ani \in FractionValues, min_cov \in FractionValues,
          threads \in ThreadValues :
            ap_args = Namespace(command,
                        AllFlags(contigs, vmag_dir, outdir, min_ani, min_cov, threads))
    /\ PATH \in SUBSET Binaries
    /\ pc = "start"
    /\ args = NoArgs
    /\ results = <<>>
    /\ calls = <<>>
    /\ files = InputFiles(command, ap_args)
    /\ reads = {}
    /\ environ = [v \in {} |-> 0]
    /\ exc = "none"
    /\ PreIdle
    /\ SumIdle
    /\ CatIdle
    /\ ScrIdle

-----------------------------------------------------------------------------
(* One run of a command *)

Crash(e) == pc' = "crashed" /\ exc' = e

\* main.parse_args: the three registered parsers in turn; the standalone script
\* only builds the Namespace
ParseArgs ==
    /\ pc = "start"
    /\ IF command = "script"
       THEN /\ pc' = "skani_main"
            /\ UNCHANGED <<args, exc>>
       ELSE LET sk == skani_parse_args(ap_args) IN
            IF sk.raise # "none"
            THEN /\ Crash(sk.raise)
                 /\ UNCHANGED args
            ELSE /\ args' = [skani |-> sk.val,
                             mcl |-> mcl_parse_args(ap_args),
                             summary |-> summary_parse_args(ap_args)]
                 /\ pc' = "parsed"
                 /\ UNCHANGED exc
    /\ UNCHANGED <<command, ap_args, PATH, results, calls, files, reads, environ>>
    /\ UNCHANGED <<pvars, svars, cvars, xvars>>

\* a variant that leaves os.environ alone
PolarsManager_keeps_environ(threads) == environ

\* PolarsManager.__init__
PolarsManager(threads) == Put(environ, "POLARS_MAX_THREADS", threads)

\* main.main up to the match statement: the PolarsManager of the command
Main ==
    /\ pc = "parsed"
    /\ environ' =
         IF command \in {"all", "skani"}
         THEN PolarsManager(Get(args.skani).threads)
         ELSE IF command = "summarize"
         THEN PolarsManager(Get(args.summary).threads)
         ELSE environ
    /\ pc' = CASE command \in {"all", "skani"} -> "skani_main"
               [] command = "mcl" -> "mcl_run"
               [] command = "summarize" -> "summarize"
    /\ UNCHANGED <<command, ap_args, PATH, args, results, calls, files, reads, exc>>
    /\ UNCHANGED <<pvars, svars, cvars, xvars>>

\* the arguments main.main (or the script's __main__ block) gives the skani runner
RunnerArgs ==
    IF command = "script"
    THEN [contigfile |-> ap_args["contigs"], vmag_dir |-> ap_args["vmag_dir"],
          output |-> ap_args["output"], outdir |-> ap_args["outdir"],
          threads |-> ap_args["threads"],
          command_log |-> joinpath(ap_args["outdir"], ap_args["command_log"]),
          log |-> joinpath(ap_args["outdir"], ap_args["log"])]
    ELSE LET a == Get(args.skani) IN
         [contigfile |-> a.io.contigs, vmag_dir |-> a.io.vmag_dir,
          output |-> a.io.skani_output, outdir |-> a.io.outdir,
          threads |-> a.threads,
          command_log |-> a.logger.command_log, log |-> a.logger.log]

\* the input check of the skani runner's main, packaged and standalone
script_main_accepts_anything(contigfile, vmag_dir) == FALSE
vskani_main_no_input(contigfile, vmag_dir) == contigfile = None /\ vmag_dir = None
script_main_no_input(contigfile, vmag_dir) == contigfile = None /\ vmag_dir = None

\* where the runner goes once a comparison is done: the three ifs of main in turn
AfterStart(r) ==
    IF r.vmag_dir # None THEN "sketch"
    ELSE IF r.contigfile # None THEN "dist_uu" ELSE "concat"
\* a variant that stops after the vMAG-vMAG comparison
AfterVV_stops(r) == "concat"

AfterVV(r) == IF r.contigfile # None THEN "dist_uu" ELSE "concat"
AfterUU(r) == IF r.vmag_dir # None THEN "dist_uv" ELSE "concat"

\* skani runner main: mkdir, logging.basicConfig, the input check, which("skani")
SkaniMain ==
    /\ pc = "skani_main"
    /\ LET r == RunnerArgs
           noinput == IF command = "script"
                      THEN script_main_no_input(r.contigfile, r.vmag_dir)
                      ELSE vskani_main_no_input(r.contigfile, r.vmag_dir)
       IN  /\ files' = Put(files, r.command_log, "log")
           /\ IF noinput \/ "skani" \notin PATH
              THEN Crash("RuntimeError")
              ELSE pc' = AfterStart(r) /\ UNCHANGED exc
    /\ UNCHANGED <<command, ap_args, PATH, args, results, calls, reads, environ>>
    /\ UNCHANGED <<pvars, svars, cvars, xvars>>

\* an external invocation as subprocess.run sees it: the command line (the
\* tool, its input and output paths, its -t parameter if it has one), the
\* environment the child inherits from os.environ, and the exit status
Call(tool, inputs, outs, threads, rc) ==
    [tool |-> tool, inputs |-> inputs, outs |-> outs, threads |-> threads,
     env |-> environ, rc |-> rc]

\* run_and_log_command / subprocess.run without check: the tool exits with some
\* status, which nobody reads; a tool that succeeds has written its outputs, one
\* that fails may have; a tool whose input is missing fails
Outcomes(fs, inputs) ==
    {o \in [rc : {0, 1}, wrote : BOOLEAN] :
        /\ (o.rc = 0 => o.wrote)
        /\ ((\E i \in 1..Len(inputs) : ~ Exists(fs, inputs[i])) => o.rc = 1)}

RECURSIVE PutAll(_, _, _)
PutAll(fs, outs, kinds) ==
    IF outs = <<>> THEN fs
    ELSE PutAll(Put(fs, Head(outs), Head(kinds)), Tail(outs), Tail(kinds))

\* sketch(): the list of vMAG files, skani sketch, the list of sketches
Sketch ==
    /\ pc = "sketch"
    /\ LET r == RunnerArgs
           vMAGs == Path(r.outdir, "vMAGs_filenames", ".txt")
           sketchdir == Path(r.outdir, "vMAGs_sketches", "")
           sketchfile == Path(r.outdir, "vMAGs_sketches", ".txt")
           f1 == Put(Put(files, vMAGs, "list"), r.log, "log")
       IN  \E o \in Outcomes(f1, <<vMAGs>>) :
             /\ calls' = Append(calls, Call("skani sketch", <<vMAGs>>, <<sketchdir>>,
                                            Some(r.threads), o.rc))
             /\ files' = Put(IF o.wrote THEN Put(f1, sketchdir, "sketches") ELSE f1,
                             sketchfile, "list")
    /\ pc' = "dist_vv"
    /\ UNCHANGED <<command, ap_args, PATH, args, results, reads, environ, exc>>
    /\ UNCHANGED <<pvars, svars, cvars, xvars>>

\* the name of the result table of one comparison
DistOutput(contigfile, vmag_dir) ==
    IF vmag_dir # None
    THEN IF contigfile # None
         THEN IF command = "script" THEN "unbinned_vs_vMAGs_skani_ANI"
              ELSE "unbinned-vMAGs_skani_ANI"
         ELSE IF command = "script" THEN "vMAGs_vs_vMAGs_skani_ANI"
              ELSE "vMAGs-vMAGs_skani_ANI"
    ELSE IF command = "script" THEN "unbinned_vs_unbinned_skani_ANI"
         ELSE "unbinned-unbinned_skani_ANI"

\* skani(): one skani dist
skani(contigfile, vmag_dir, next) ==
    LET r == RunnerArgs
        sketchfile == Path(r.outdir, "vMAGs_sketches", ".txt")
        ref == IF vmag_dir # None THEN sketchfile ELSE Get(contigfile)
        query == IF vmag_dir # None /\ contigfile = None THEN sketchfile
                 ELSE Get(contigfile)
        output == Path(r.outdir, DistOutput(contigfile, vmag_dir), ".tsv")
        f1 == Put(files, r.log, "log")
    IN  /\ \E o \in Outcomes(f1, <<>>) :
             /\ calls' = Append(calls, Call("skani dist", <<ref, query>>, <<output>>,
                                            Some(r.threads), o.rc))
             /\ files' = IF o.wrote THEN Put(f1, output, "similarity") ELSE f1
        /\ results' = Append(results, output)
        /\ pc' = next
        /\ UNCHANGED <<command, ap_args, PATH, args, reads, environ, exc>>
        /\ UNCHANGED <<pvars, svars, cvars, xvars>>

\* vMAG-vMAG comparison
DistVV ==
    /\ pc = "dist_vv"
    /\ skani(None, RunnerArgs.vmag_dir, AfterVV(RunnerArgs))

\* unbinned-unbinned comparison
DistUU ==
    /\ pc = "dist_uu"
    /\ skani(RunnerArgs.contigfile, None, AfterUU(RunnerArgs))

\* unbinned-vMAG comparison
DistUV ==
    /\ pc = "dist_uv"
    /\ skani(RunnerArgs.contigfile, RunnerArgs.vmag_dir, "concat")

\* the results the concatenation loop gets through: all of them, or those before
\* the first one that does not exist
Copied(fs, rs) ==
    LET missing == {i \in 1..Len(rs) : ~ Exists(fs, rs[i])}
    IN  IF missing = {} THEN Len(rs)
        ELSE (CHOOSE i \in missing : \A j \in missing : i <= j) - 1

RECURSIVE RemoveAll(_, _, _)
RemoveAll(fs, rs, n) ==
    IF n = 0 THEN fs ELSE RemoveAll(Remove(fs, rs[n]), rs, n - 1)

\* the end of the runner's main: the result tables copied into one file, the
\* header line of every table but the first skipped, each table removed
Concat ==
    /\ pc = "concat"
    /\ LET r == RunnerArgs
           out == joinpath(r.outdir, r.output)
           f1 == Put(files, out, "similarity")
           n == Copied(f1, results)
       IN  /\ files' = RemoveAll(f1, results, n)
           /\ IF n < Len(results)
              THEN Crash("FileNotFoundError")
              ELSE /\ pc' = IF command = "script" THEN "done" ELSE "preprocess"
                   /\ UNCHANGED exc
    /\ UNCHANGED <<command, ap_args, PATH, args, results, calls, reads, environ>>
    /\ UNCHANGED <<pvars, svars, cvars, xvars>>

Read(stage, file) == [stage |-> stage, file |-> file]

\* main.main: SkaniPreprocessor(file=skani_output).process_and_save(processed_output)
Preprocess ==
    /\ pc = "preprocess"
    /\ LET a == Get(args.skani)
           file == a.io.skani_output
       IN  /\ reads' = reads \cup {Read("preprocessor", file)}
           /\ IF ~ Exists(files, file)
              THEN Crash("FileNotFoundError") /\ UNCHANGED files
              ELSE IF files[file] # "similarity"
              THEN Crash("ColumnNotFoundError") /\ UNCHANGED files
              ELSE /\ files' = Put(files, a.io.processed_output, "edges")
                   /\ pc' = IF command = "all" THEN "mcl_run" ELSE "done"
                   /\ UNCHANGED exc
    /\ UNCHANGED <<command, ap_args, PATH, args, results, calls, environ>>
    /\ UNCHANGED <<pvars, svars, cvars, xvars>>

\* the edge list main.main hands to vskani.mcl.run
main_mcl_file(cmd, a) ==
    IF a.skani = None THEN None ELSE Some(Get(a.skani).io.processed_output)

\* main.main calling vskani.mcl.run, and mcxload() in it
Mcxload ==
    /\ pc = "mcl_run"
    /\ LET file == main_mcl_file(command, args) IN
       IF file = None \/ args.mcl = None
       THEN /\ Crash("AttributeError")
            /\ UNCHANGED <<calls, files>>
       ELSE IF "mcxload" \notin PATH
       THEN /\ Crash("FileNotFoundError")
            /\ UNCHANGED <<calls, files>>
       ELSE LET m == Get(args.mcl) IN
            \E o \in Outcomes(files, <<Get(file)>>) :
              /\ calls' = Append(calls, Call("mcxload", <<Get(file)>>,
                                             <<m.tabfile, m.matfile>>, None, o.rc))
              /\ files' = IF o.wrote
                          THEN PutAll(files, <<m.tabfile, m.matfile>>, <<"tab", "mci">>)
                          ELSE files
              /\ pc' = "mcl"
              /\ UNCHANGED exc
    /\ UNCHANGED <<command, ap_args, PATH, args, results, reads, environ>>
    /\ UNCHANGED <<pvars, svars, cvars, xvars>>

\* mcl() in vskani.mcl.run
Mcl ==
    /\ pc = "mcl"
    /\ IF "mcl" \notin PATH
       THEN /\ Crash("FileNotFoundError")
            /\ UNCHANGED <<calls, files>>
       ELSE LET m == Get(args.mcl) IN
            \E o \in Outcomes(files, <<m.matfile, m.tabfile>>) :
              /\ calls' = Append(calls, Call("mcl", <<m.matfile, m.tabfile>>,
                                             <<m.output>>, None, o.rc))
              /\ files' = IF o.wrote THEN Put(files, m.output, "clusters") ELSE files
              /\ pc' = IF command = "all" THEN "summarize" ELSE "done"
              /\ UNCHANGED exc
    /\ UNCHANGED <<command, ap_args, PATH, args, results, reads, environ>>
    /\ UNCHANGED <<pvars, svars, cvars, xvars>>

\* the similarity table main.main hands to ClusterSummarizer
main_summarizer_skani_file(cmd, a) ==
    IF cmd = "all" THEN Get(a.skani).io.processed_output
    ELSE Get(a.summary).skani_input

\* the clusters file main.main hands to ClusterSummarizer
main_summarizer_clusters_file(cmd, a) ==
    IF cmd = "all" THEN Get(a.mcl).output ELSE Get(a.summary).mcl_output

\* main.main: ClusterSummarizer(skani_file, clusters_file).summarize_and_save(output)
\* read_csv of the table, the clusters file read by iload, the joins on Ref_name
\* and Query_name, the summary written
Summarize ==
    /\ pc = "summarize"
    /\ LET skani_file == main_summarizer_skani_file(command, args)
           clusters == main_summarizer_clusters_file(command, args)
           output == Get(args.summary).output
       IN  /\ reads' = reads \cup {Read("summarizer.skani_file", skani_file),
                                   Read("summarizer.clusters_file", clusters)}
           /\ IF ~ Exists(files, skani_file) \/ ~ Exists(files, clusters)
              THEN Crash("FileNotFoundError") /\ UNCHANGED files
              ELSE IF files[skani_file] # "similarity"
              THEN Crash("ColumnNotFoundError") /\ UNCHANGED files
              ELSE /\ files' = Put(files, output, "summary")
                   /\ pc' = "done"
                   /\ UNCHANGED exc
    /\ UNCHANGED <<command, ap_args, PATH, args, results, calls, environ>>
    /\ UNCHANGED <<pvars, svars, cvars, xvars>>

Next ==
    \/ ParseArgs
    \/ Main
    \/ SkaniMain
    \/ Sketch
    \/ DistVV
    \/ DistUU
    \/ DistUV
    \/ Concat
    \/ Preprocess
    \/ Mcxload
    \/ Mcl
    \/ Summarize

Spec == Init /\ [][Next]_vars

-----------------------------------------------------------------------------
(* Properties of a run (Spec) *)

Terminated == pc \in {"done", "crashed"}

Failed(i) == calls[i].rc # 0

\* C3: in the "all" command the table the cluster summarizer is given is the
\* original similarity table (the one with the Ref_name, Query_name and ANI
\* columns), not the preprocessed edge list.
C3_SummarizerGetsOriginalTable ==
    command = "all" =>
        \A r \in reads :
            r.stage = "summarizer.skani_file" =>
                /\ Exists(files, r.file) => files[r.file] = "similarity"
                /\ r.file # Get(args.skani).io.processed_output

\* C4: an external tool that exits with a non-zero status fails the run at that
\* point: it is the last invocation made and the run is in its failed state.
C4_ToolFailureFailsRun ==
    \A i \in 1..Len(calls) :
        Failed(i) => i = Len(calls) /\ pc = "crashed"

\* C5: the "mcl" command, with mcxload and mcl installed, runs mcxload and then
\* mcl on exactly the --input file and ends without an exception.
C5_MclCommandRuns ==
    (command = "mcl" /\ {"mcxload", "mcl"} \subseteq PATH /\ Terminated) =>
        /\ exc = "none"
        /\ Len(calls) = 2
        /\ calls[1].tool = "mcxload" /\ calls[1].inputs = <<ap_args["input"]>>
        /\ calls[2].tool = "mcl"

\* the external binaries a command needs
Needs(cmd) ==
    CASE cmd \in {"skani", "script"} -> {"skani"}
      [] cmd = "mcl" -> {"mcxload", "mcl"}
      [] cmd = "all" -> {"skani", "mcxload", "mcl"}
      [] OTHER -> {}

\* C6: when a binary the command needs is missing, the run fails before any
\* external tool has been invoked.
C6_MissingBinaryFailsAtStartup ==
    ~ (Needs(command) \subseteq PATH) => calls = <<>> /\ pc # "done"

NoInputGiven ==
    /\ command \in {"skani", "all", "script"}
    /\ ap_args["contigs"] = None
    /\ ap_args["vmag_dir"] = None

\* C7: with neither --contigs nor --vmag-dir, the similarity and full-pipeline
\* commands end in a fatal error; no external tool is invoked and no similarity
\* table is written.
C7_NoInputIsFatal ==
    NoInputGiven =>
        /\ calls = <<>>
        /\ \A f \in DOMAIN files : files[f] # "similarity"
        /\ pc \in {"start", "skani_main", "crashed"}
        /\ pc = "crashed" => exc \in {"RuntimeError", "ValueError"}

C7_Witness ==
    /\ NoInputGiven
    /\ command = "all"
    /\ pc = "crashed"
    /\ exc = "RuntimeError"

HasThresholds == command \in {"skani", "all"}

InRange(k) == 0 <= k /\ k <= Den

ThresholdsInRange == InRange(ap_args["min_ani"]) /\ InRange(ap_args["min_cov"])

\* C8: a --min-ani or --min-cov outside [0,1] is rejected by argument parsing
\* (a ValueError) before any stage has done anything; values inside the range,
\* 0 and 1 included, are not rejected.
C8_OutOfRangeRejectedAtParse ==
    HasThresholds =>
        /\ ~ ThresholdsInRange =>
              /\ pc \in {"start", "crashed"}
              /\ pc = "crashed" => exc = "ValueError"
              /\ calls = <<>> /\ reads = {}
              /\ DOMAIN files = {} /\ DOMAIN environ = {}
              /\ args = NoArgs
        /\ ThresholdsInRange => exc # "ValueError"

C8_Witness ==
    /\ HasThresholds
    /\ ap_args["min_ani"] = 0
    /\ ap_args["min_cov"] = Den + 1
    /\ pc = "crashed"
    /\ exc = "ValueError"

\* the boundary values themselves pass the parser
C8_BoundaryWitness ==
    /\ HasThresholds
    /\ ap_args["min_ani"] = 0
    /\ ap_args["min_cov"] = Den
    /\ pc = "parsed"

-----------------------------------------------------------------------------
(* SkaniPreprocessor on a concrete table (SpecPre) *)

\* 100**2, the divisor of an edge weight
scale == 10000

\* the identities and aligned fractions tried; a row is a self comparison
\* (a, a) or a comparison of two genomes (a, b)
AniValues == {0, 50, 100}
AfValues == {50, 100}

SimilarityRows ==
    [Ref_name : {"a"}, Query_name : {"a", "b"}, ANI : AniValues,
     Align_fraction_ref : AfValues, Align_fraction_query : AfValues]

RECURSIVE SeqsUpTo(_, _)
SeqsUpTo(S, n) ==
    IF n = 0 THEN {<<>>}
    ELSE LET shorter == SeqsUpTo(S, n - 1)
         IN  shorter \cup {Append(t, x) : t \in {u \in shorter : Len(u) = n - 1}, x \in S}

\* the state of the orchestration while a component is modelled on its own
OrchIdle ==
    /\ command = "none"
    /\ PATH = {}
    /\ args = NoArgs
    /\ results = <<>>
    /\ calls = <<>>
    /\ files = [q \in {} |-> "none"]
    /\ reads = {}
    /\ environ = [v \in {} |-> 0]
    /\ exc = "none"

orest == <<command, ap_args, PATH, args, results, calls, files, reads, environ, exc>>

InitPre ==
    /\ OrchIdle
    /\ \E min_ani \in 0..Den, min_cov \in 0..Den :
          ap_args = [min_ani |-> min_ani, min_cov |-> min_cov]
    /\ pc = "pre_args"
    /\ preprocessing = [min_ani |-> 0, min_cov |-> 0]
    /\ input_table \in SeqsUpTo(SimilarityRows, MaxRows)
    /\ data = <<>>
    /\ edge_list = <<>>
    /\ SumIdle
    /\ CatIdle
    /\ ScrIdle

\* PreprocessingArgs(min_ani=ap_args.min_ani, min_cov=ap_args.min_cov)
PreArgs ==
    /\ pc = "pre_args"
    /\ LET pp == PreprocessingArgs(ap_args["min_ani"], ap_args["min_cov"]) IN
       /\ pp.raise = "none"
       /\ preprocessing' = [min_ani |-> pp.min_ani, min_cov |-> pp.min_cov]
    /\ pc' = "pre_new"
    /\ UNCHANGED <<orest, input_table, data, edge_list, svars, cvars, xvars>>

\* SkaniPreprocessor.__init__: read_data
PreNew ==
    /\ pc = "pre_new"
    /\ data' = input_table
    /\ pc' = "pre_process"
    /\ UNCHANGED <<orest, preprocessing, input_table, edge_list, svars, cvars, xvars>>

\* a percentage of the table against a threshold kept as a numerator over Den
AtLeast(pct, threshold) == pct * Den >= threshold

Filter(rows, Keep(_)) == SelectSeq(rows, Keep)

\* SkaniPreprocessor._preprocess
preprocess_strict(rows, min_ani, min_af) ==
    LET Keep(r) ==
          /\ r.Ref_name # r.Query_name
          /\ r.ANI * Den > min_ani
          /\ (r.Align_fraction_ref * Den > min_af
              \/ r.Align_fraction_query * Den > min_af)
    IN  Filter(rows, Keep)
preprocess(rows, min_ani, min_af) ==
    LET Keep(r) ==
          /\ r.Ref_name # r.Query_name
          /\ AtLeast(r.ANI, min_ani)
          /\ (AtLeast(r.Align_fraction_ref, min_af)
              \/ AtLeast(r.Align_fraction_query, min_af))
    IN  Filter(rows, Keep)

Min2(x, y) == IF x <= y THEN x ELSE y
Max2(x, y) == IF x >= y THEN x ELSE y

\* a quotient x / d, kept exact
Quot(x, d) == [num |-> x, den |-> d]

MapRows(rows, F(_)) == [i \in 1..Len(rows) |-> F(rows[i])]

\* SkaniPreprocessor._create_edge_weights: AF the smaller of the two aligned
\* fractions, weight = AF * ANI / scale
create_edge_weights_max(rows) ==
    LET W(r) ==
          LET AF == Max2(r.Align_fraction_query, r.Align_fraction_ref) IN
          [Ref_name |-> r.Ref_name, Query_name |-> r.Query_name, ANI |-> r.ANI,
           Align_fraction_ref |-> r.Align_fraction_ref,
           Align_fraction_query |-> r.Align_fraction_query,
           AF |-> AF, weight |-> Quot(AF * r.ANI, scale)]
    IN  MapRows(rows, W)
create_edge_weights(rows) ==
    LET W(r) ==
          LET AF == Min2(r.Align_fraction_query, r.Align_fraction_ref) IN
          [Ref_name |-> r.Ref_name, Query_name |-> r.Query_name, ANI |-> r.ANI,
           Align_fraction_ref |-> r.Align_fraction_ref,
           Align_fraction_query |-> r.Align_fraction_query,
           AF |-> AF, weight |-> Quot(AF * r.ANI, scale)]
    IN  MapRows(rows, W)

\* SkaniPreprocessor.process
PreProcess ==
    /\ pc = "pre_process"
    /\ data' = create_edge_weights(
                  preprocess(data, preprocessing.min_ani, preprocessing.min_cov))
    /\ pc' = "pre_save"
    /\ UNCHANGED <<orest, preprocessing, input_table, edge_list, svars, cvars, xvars>>

\* SkaniPreprocessor.save: the three selected columns, no header
save(rows) ==
    LET S(r) == [Ref_name |-> r.Ref_name, Query_name |-> r.Query_name,
                 weight |-> r.weight]
    IN  MapRows(rows, S)

PreSave ==
    /\ pc = "pre_save"
    /\ edge_list' = save(data)
    /\ pc' = "pre_done"
    /\ UNCHANGED <<orest, preprocessing, input_table, data, svars, cvars, xvars>>

NextPre ==
    \/ PreArgs
    \/ PreNew
    \/ PreProcess
    \/ PreSave

SpecPre == InitPre /\ [][NextPre]_vars

\* the rows the rule of the specification keeps: thresholds as the fractions
\* given on the command line, compared as percentages
Kept(r) ==
    /\ r.Ref_name # r.Query_name
    /\ r.ANI * Den >= ap_args["min_ani"] * 100
    /\ \/ r.Align_fraction_ref * Den >= ap_args["min_cov"] * 100
       \/ r.Align_fraction_query * Den >= ap_args["min_cov"] * 100

KeptRows == SelectSeq(input_table, Kept)

\* C1: the edge list written holds exactly the rows of the table with
\* Ref_name # Query_name, ANI >= min_ani*100 and one of the aligned fractions
\* >= min_cov*100 (inclusive), one edge per such row, in the order of the table.
C1_EdgeListIsKeptRows ==
    pc = "pre_done" =>
        /\ Len(edge_list) = Len(KeptRows)
        /\ \A j \in 1..Len(edge_list) :
              /\ edge_list[j].Ref_name = KeptRows[j].Ref_name
              /\ edge_list[j].Query_name = KeptRows[j].Query_name
              /\ data[j].ANI = KeptRows[j].ANI
              /\ data[j].Align_fraction_ref = KeptRows[j].Align_fraction_ref
              /\ data[j].Align_fraction_query = KeptRows[j].Align_fraction_query

\* a table with a row on the identity threshold, a row kept by one aligned
\* fraction only and a self comparison, written out
C1_Witness ==
    /\ pc = "pre_done"
    /\ ap_args["min_ani"] = 1 /\ ap_args["min_cov"] = Den
    /\ Len(input_table) = 2
    /\ input_table[1].Ref_name = input_table[1].Query_name
    /\ input_table[2].ANI * Den = 100
    /\ input_table[2].Align_fraction_ref < input_table[2].Align_fraction_query
    /\ Len(edge_list) = 1

\* C2: the weight of every edge written is
\* min(Align_fraction_ref, Align_fraction_query) * ANI / 10000 of its row, and
\* lies in [0,1].
C2_WeightIsMinAfTimesAni ==
    pc = "pre_done" =>
        /\ Len(edge_list) = Len(KeptRows)
        /\ \A j \in 1..Len(edge_list) :
              LET r == KeptRows[j]
                  w == edge_list[j].weight
                  m == IF r.Align_fraction_ref <= r.Align_fraction_query
                       THEN r.Align_fraction_ref ELSE r.Align_fraction_query
              IN  /\ w.den > 0
                  /\ w.num * 10000 = m * r.ANI * w.den
                  /\ 0 <= w.num /\ w.num <= w.den

\* an edge whose two aligned fractions differ, and an edge of weight 1
C2_Witness ==
    /\ pc = "pre_done"
    /\ Len(edge_list) = 2
    /\ KeptRows[1].Align_fraction_ref > KeptRows[1].Align_fraction_query
    /\ edge_list[1].weight.num < edge_list[1].weight.den
    /\ edge_list[2].weight.num = edge_list[2].weight.den

-----------------------------------------------------------------------------
(* ClusterSummarizer on a concrete table and clusters file (SpecSum) *)

\* the default of ClusterSummarizer and of iload
min_cluster_size == 2

\* the lines of a clusters file tried, each as split at the tabs
ClusterLines ==
    {<<"a">>, <<"a", "b">>, <<"b", "c">>, <<"c", "d">>, <<"a", "b", "c">>}

\* the rows of a similarity table tried (the three columns the summarizer uses)
RowPairs ==
    {<<"a", "a">>, <<"a", "b">>, <<"b", "a">>, <<"b", "c">>, <<"c", "d">>}

SummarizerRows ==
    {[Ref_name |-> p[1], Query_name |-> p[2], ANI |-> x] :
        p \in RowPairs, x \in {0, 100}}

InitSum ==
    /\ OrchIdle
    /\ ap_args = [v \in {} |-> 0]
    /\ pc = "sum_new"
    /\ PreIdle
    /\ clusters_file \in SeqsUpTo(ClusterLines, MaxLines)
    /\ skani_table \in SeqsUpTo(SummarizerRows, MaxRows)
    /\ ani_data = <<>>
    /\ summary = <<>>
    /\ CatIdle
    /\ ScrIdle

\* iload: the lines with at least min_size members, in file order
iload_every_line(lines, min_size) == lines
iload(lines, min_size) ==
    LET Big(cluster) == Len(cluster) >= min_size
    IN  SelectSeq(lines, Big)

\* a variant that counts from 1
enumerate_from_one(loader) ==
    [i \in 1..Len(loader) |-> [cluster_id |-> i, cluster |-> loader[i]]]

\* enumerate(loader): each cluster with its position, counted from 0
enumerate(loader) ==
    [i \in 1..Len(loader) |-> [cluster_id |-> i - 1, cluster |-> loader[i]]]

Members(cluster) == {cluster[i] : i \in 1..Len(cluster)}

\* ClusterSummarizer._map_members_to_cluster_ids: member -> position of its
\* cluster in the enumeration of iload, from 0; a later cluster overwrites
map_members_to_cluster_ids_first_wins(lines, min_size) ==
    LET pairs == enumerate(iload(lines, min_size))
        named == UNION {Members(pairs[i].cluster) : i \in 1..Len(pairs)}
        First(m) == CHOOSE i \in 1..Len(pairs) :
                      /\ m \in Members(pairs[i].cluster)
                      /\ \A j \in 1..Len(pairs) : m \in Members(pairs[j].cluster) => i <= j
    IN  [m \in named |-> pairs[First(m)].cluster_id]
map_members_to_cluster_ids(lines, min_size) ==
    LET pairs == enumerate(iload(lines, min_size))
        named == UNION {Members(pairs[i].cluster) : i \in 1..Len(pairs)}
        Last(m) == CHOOSE i \in 1..Len(pairs) :
                      /\ m \in Members(pairs[i].cluster)
                      /\ \A j \in 1..Len(pairs) : m \in Members(pairs[j].cluster) => j <= i
    IN  [m \in named |-> pairs[Last(m)].cluster_id]

\* DataFrame.join(clusters renamed to (key, col), on=key): the inner join with
\* the (name, cluster) records
Join(rows, member2cluster, key, col) ==
    LET Has(r) == r[key] \in DOMAIN member2cluster
        matched == SelectSeq(rows, Has)
    IN  [i \in 1..Len(matched) |->
            [f \in DOMAIN matched[i] \cup {col} |->
                IF f = col THEN member2cluster[matched[i][key]] ELSE matched[i][f]]]

\* ClusterSummarizer._merge_cluster_ids
merge_cluster_ids_no_filter(rows, lines, min_size) ==
    LET member2cluster == map_members_to_cluster_ids(lines, min_size)
    IN  Join(Join(rows, member2cluster, "Ref_name", "Ref_cluster"),
             member2cluster, "Query_name", "Query_cluster")
merge_cluster_ids(rows, lines, min_size) ==
    LET member2cluster == map_members_to_cluster_ids(lines, min_size)
        joined == Join(Join(rows, member2cluster, "Ref_name", "Ref_cluster"),
                       member2cluster, "Query_name", "Query_cluster")
        Same(r) == r["Ref_cluster"] = r["Query_cluster"]
    IN  SelectSeq(joined, Same)

\* ClusterSummarizer.__init__: read_csv, then _merge_cluster_ids
SumNew ==
    /\ pc = "sum_new"
    /\ ani_data' = merge_cluster_ids(skani_table, clusters_file, min_cluster_size)
    /\ pc' = "sum_save"
    /\ UNCHANGED <<orest, pvars, clusters_file, skani_table, summary, cvars, xvars>>

RECURSIVE SumANI(_)
SumANI(rows) == IF rows = <<>> THEN 0 ELSE Head(rows)["ANI"] + SumANI(Tail(rows))

\* x <= y for two quotients with positive denominators
QuotLeq(x, y) == x.num * y.den <= y.num * x.den

\* groupby("Ref_cluster").agg(mean of ANI): one record per cluster
GroupMeans(rows) ==
    {LET InC(r) == r["Ref_cluster"] = c
         group == SelectSeq(rows, InC)
     IN  [cluster |-> c, avg_ANI |-> Quot(SumANI(group), Len(group))]
     : c \in {rows[i]["Ref_cluster"] : i \in 1..Len(rows)}}

\* the orders sort(by="avg_ANI") can leave the records in: ascending, records
\* of equal mean in any order
SortedByAvg(groups) ==
    {t \in [1..Cardinality(groups) -> groups] :
        /\ \A g \in groups : \E i \in DOMAIN t : t[i] = g
        /\ \A i, j \in DOMAIN t : i < j => QuotLeq(t[i].avg_ANI, t[j].avg_ANI)}

\* every order of the records
AnyOrder(groups) ==
    {t \in [1..Cardinality(groups) -> groups] :
        \A g \in groups : \E i \in DOMAIN t : t[i] = g}

average_ANI_per_cluster_unsorted(rows) == AnyOrder(GroupMeans(rows))
\* ClusterSummarizer.average_ANI_per_cluster
average_ANI_per_cluster(rows) == SortedByAvg(GroupMeans(rows))

\* ClusterSummarizer.summarize_and_save
SumSave ==
    /\ pc = "sum_save"
    /\ summary' \in average_ANI_per_cluster(ani_data)
    /\ pc' = "sum_done"
    /\ UNCHANGED <<orest, pvars, clusters_file, skani_table, ani_data, cvars, xvars>>

NextSum ==
    \/ SumNew
    \/ SumSave

SpecSum == InitSum /\ [][NextSum]_vars

\* the name -> cluster id mapping of the clusters file
Mapping == map_members_to_cluster_ids(clusters_file, min_cluster_size)

\* the rows of the table whose two endpoints both map to cluster c under m
RowsIn(m, c) ==
    {i \in 1..Len(skani_table) :
        /\ skani_table[i].Ref_name \in DOMAIN m
        /\ skani_table[i].Query_name \in DOMAIN m
        /\ m[skani_table[i].Ref_name] = c
        /\ m[skani_table[i].Query_name] = c}

RECURSIVE SumOver(_)
SumOver(I) ==
    IF I = {} THEN 0
    ELSE LET i == CHOOSE x \in I : TRUE
         IN  skani_table[i].ANI + SumOver(I \ {i})

\* C9: the mean reported for a cluster is the arithmetic mean of ANI over
\* exactly the rows whose Ref_name and Query_name both map to that cluster, and
\* lies in [0,100].
C9_MeanOverIntraClusterRows ==
    pc = "sum_done" =>
        LET m == Mapping IN
        \A k \in 1..Len(summary) :
            LET rows == RowsIn(m, summary[k].cluster)
                avg == summary[k].avg_ANI
            IN  /\ rows # {}
                /\ avg.den > 0
                /\ avg.num * Cardinality(rows) = SumOver(rows) * avg.den
                /\ 0 <= avg.num /\ avg.num <= 100 * avg.den

\* a summary of a cluster with two rows of different identity, next to a row
\* between two clusters and a row with an endpoint in no cluster
C9_Witness ==
    /\ pc = "sum_done"
    /\ Len(summary) = 1
    /\ summary[1].avg_ANI.den = 2
    /\ summary[1].avg_ANI.num = 100

\* a summary next to a row between two clusters, which is in no mean
C9_WitnessOutside ==
    /\ pc = "sum_done"
    /\ Len(summary) = 1
    /\ \E j \in 1..Len(skani_table) :
          /\ skani_table[j].Ref_name \in DOMAIN Mapping
          /\ skani_table[j].Query_name \in DOMAIN Mapping
          /\ Mapping[skani_table[j].Ref_name] # Mapping[skani_table[j].Query_name]

\* the lines of the clusters file with at least two members
BigLines == {l \in 1..Len(clusters_file) : Len(clusters_file[l]) >= 2}

\* C10: every cluster id of the summary is the id of a line with at least two
\* members (its position among such lines) that holds both endpoints of a row,
\* and no id is in two summary rows.
C10_SummaryIdsAreBigLines ==
    pc = "sum_done" =>
        /\ \A k \in 1..Len(summary) :
              \E l \in BigLines :
                  /\ summary[k].cluster = Cardinality({j \in BigLines : j < l})
                  /\ \E i \in 1..Len(skani_table) :
                        /\ skani_table[i].Ref_name \in Members(clusters_file[l])
                        /\ skani_table[i].Query_name \in Members(clusters_file[l])
        /\ \A k, n \in 1..Len(summary) :
              summary[k].cluster = summary[n].cluster => k = n

\* a file with a single-member line before a line of two members, and a summary
\* row for the latter
C10_Witness ==
    /\ pc = "sum_done"
    /\ Len(clusters_file) = 2
    /\ Len(clusters_file[1]) = 1
    /\ Len(summary) = 1
    /\ summary[1].cluster = 0
    /\ \E i \in 1..Len(skani_table) :
          skani_table[i].Ref_name = skani_table[i].Query_name
          /\ skani_table[i].Ref_name = clusters_file[1][1]

\* C11: the rows of the summary are in non-decreasing order of mean identity.
C11_SummarySortedByMean ==
    pc = "sum_done" =>
        \A k \in 1..(Len(summary) - 1) :
            summary[k].avg_ANI.num * summary[k + 1].avg_ANI.den
                <= summary[k + 1].avg_ANI.num * summary[k].avg_ANI.den

\* two clusters where the one of the later line has the smaller mean and is
\* written first
C11_Witness ==
    /\ pc = "sum_done"
    /\ Len(summary) = 2
    /\ summary[1].cluster = 1 /\ summary[2].cluster = 0
    /\ summary[1].avg_ANI.num * summary[2].avg_ANI.den
          < summary[2].avg_ANI.num * summary[1].avg_ANI.den


(***************************************************************************)
(* SpecCat: the concatenation loop at the end of the runner's main, on     *)
(* concrete result tables.  A table is the sequence of its lines; skani    *)
(* writes a header line first and one line per comparison after it.        *)
(***************************************************************************)
HeaderLine == "header"
DataLines == {"r1", "r2"}

\* what one skani dist run leaves in its result file
ResultTables == {<<HeaderLine>> \o d : d \in SeqsUpTo(DataLines, MaxRows)}

\* main appends one result (one kind of input) or three (both kinds)
ResultCounts == {1, 3}

InitCat ==
    /\ OrchIdle
    /\ ap_args = [v \in {} |-> 0]
    /\ pc = "cat_open"
    /\ PreIdle
    /\ SumIdle
    /\ tables \in UNION {[1..k -> ResultTables] : k \in ResultCounts}
    /\ copied = 0
    /\ combined = <<>>
    /\ ScrIdle

\* outdir.joinpath(output).open("wb"): the combined file is created empty
CatOpen ==
    /\ pc = "cat_open"
    /\ combined' = <<>>
    /\ pc' = "cat_copy"
    /\ UNCHANGED <<orest, pvars, svars, tables, copied, xvars>>

\* a variant that copies every table whole
copy_table_whole(i, table) == table

\* what one iteration of the loop copies from the i-th result (i counts from 0):
\* readline drops one line, if there is one, and copyfileobj copies the rest
copy_table(i, table) ==
    IF i # 0 /\ table # <<>> THEN Tail(table) ELSE table

\* one iteration of the loop: copy the result, then os.remove it
CatCopy ==
    /\ pc = "cat_copy"
    /\ copied < Len(tables)
    /\ combined' = combined \o copy_table(copied, tables[copied + 1])
    /\ copied' = copied + 1
    /\ UNCHANGED <<pc, orest, pvars, svars, tables, xvars>>

\* the loop is over and the with-block closes the combined file
CatClose ==
    /\ pc = "cat_copy"
    /\ copied = Len(tables)
    /\ pc' = "cat_done"
    /\ UNCHANGED <<orest, pvars, svars, cvars, xvars>>

NextCat ==
    \/ CatOpen
    \/ CatCopy
    \/ CatClose

SpecCat == InitCat /\ [][NextCat]_vars

RECURSIVE TotalLines(_)
TotalLines(ts) == IF ts = <<>> THEN 0 ELSE Len(Head(ts)) + TotalLines(Tail(ts))

\* the data rows of the tables, table after table
RECURSIVE AllData(_)
AllData(ts) == IF ts = <<>> THEN <<>> ELSE Tail(Head(ts)) \o AllData(Tail(ts))

\* C12: the combined file has as many lines as the k tables together minus
\* (k - 1); it is the header of the first table followed by the data rows of
\* every table, once each, in table order.
C12_CombinedIsHeaderThenAllRows ==
    pc = "cat_done" =>
        /\ Len(combined) = TotalLines(tables) - (Len(tables) - 1)
        /\ combined = <<Head(tables[1])>> \o AllData(tables)

C12_Witness ==
    /\ pc = "cat_done"
    /\ Len(tables) = 3
    /\ \A i \in 1..3 : Len(tables[i]) = 3
    /\ tables[2] # tables[3]
    /\ Len(combined) = 7

C12_WitnessSingle ==
    /\ pc = "cat_done"
    /\ Len(tables) = 1
    /\ combined = tables[1]
    /\ Len(combined) = 2

\* the thread count of the command line
UserThreads == ap_args["threads"]

SimilarityTools == {"skani sketch", "skani dist"}
ClusteringTools == {"mcxload", "mcl"}

\* the call got n on its command line or in a variable of its environment
ReceivesThreads(c, n) ==
    \/ c.threads = Some(n)
    \/ \E v \in DOMAIN c.env : c.env[v] = n

ToolRank(tool) ==
    CASE tool \in SimilarityTools -> 1
      [] tool = "mcxload" -> 2
      [] tool = "mcl" -> 3

HasRead(stage) == \E r \in reads : r.stage = stage

HasCall(tool) == \E i \in 1..Len(calls) : calls[i].tool = tool

\* the file the runner's main writes its combined table to
RunnerOutput == joinpath(RunnerArgs.outdir, RunnerArgs.output)

\* the stages of "all" happen one after the other: no call of a later tool
\* precedes a call of an earlier one, the preprocessor reads only once the
\* runner has written, mcxload runs only once the preprocessor has written,
\* mcl only after mcxload, the summarizer only after mcl
C14_StagesInOrder ==
    /\ \A i, j \in 1..Len(calls) :
          i < j => ToolRank(calls[i].tool) <= ToolRank(calls[j].tool)
    /\ HasRead("preprocessor") => Exists(files, RunnerOutput) /\ ~ Exists(files, results[1])
    /\ HasCall("mcxload") =>
          /\ HasRead("preprocessor")
          /\ Exists(files, Get(args.skani).io.processed_output)
    /\ HasCall("mcl") => HasCall("mcxload")
    /\ HasRead("summarizer.clusters_file") => HasCall("mcl")

\* mcxload, mcl and the summarizer are given the files their predecessors were
\* told to write
C14_LaterStagesReadPredecessor ==
    /\ \A i \in 1..Len(calls) :
          calls[i].tool = "mcxload" =>
              calls[i].inputs = <<Get(args.skani).io.processed_output>>
    /\ \A j \in 1..Len(calls) :
          calls[j].tool = "mcl" =>
              \E i \in 1..(j - 1) :
                  /\ calls[i].tool = "mcxload"
                  /\ calls[j].inputs = <<calls[i].outs[2], calls[i].outs[1]>>
    /\ \A r \in reads :
          r.stage = "summarizer.clusters_file" =>
              \E i \in 1..Len(calls) :
                  calls[i].tool = "mcl" /\ calls[i].outs = <<r.file>>

\* the preprocessor reads the file the runner wrote
PreprocessorReadsRunnerOutput ==
    \A r \in reads : r.stage = "preprocessor" => r.file = RunnerOutput

\* what holds of the chain in every run of "all"
C14_OrderAndLaterFiles ==
    command = "all" /\ args.skani # None =>
        C14_StagesInOrder /\ C14_LaterStagesReadPredecessor

\* C14: in the "all" command the stages run in the order runner, preprocessor,
\* mcxload, mcl, summarizer, each after the previous one has returned, and each
\* reads the file its predecessor wrote.
C14_StagesChained ==
    command = "all" /\ args.skani # None =>
        /\ C14_StagesInOrder
        /\ PreprocessorReadsRunnerOutput
        /\ C14_LaterStagesReadPredecessor

\* the sketch list that skani dist is pointed at
SketchList == Path(RunnerArgs.outdir, "vMAGs_sketches", ".txt")

\* the inputs of the three kinds of comparison
InputsVV == <<SketchList, SketchList>>
InputsUU == <<Get(RunnerArgs.contigfile), Get(RunnerArgs.contigfile)>>
InputsUV == <<SketchList, Get(RunnerArgs.contigfile)>>

IsSketch(c) == c.tool = "skani sketch"
IsDist(c, inputs) == c.tool = "skani dist" /\ c.inputs = inputs

\* the calls the runner has made once it gets to the concatenation
RunnerCallsComplete ==
    LET r == RunnerArgs IN
    IF r.vmag_dir # None /\ r.contigfile = None
    THEN /\ Len(calls) = 2
         /\ IsSketch(calls[1])
         /\ IsDist(calls[2], InputsVV)
    ELSE IF r.vmag_dir = None /\ r.contigfile # None
    THEN /\ Len(calls) = 1
         /\ IsDist(calls[1], InputsUU)
    ELSE /\ r.vmag_dir # None /\ r.contigfile # None
         /\ Len(calls) = 4
         /\ IsSketch(calls[1])
         /\ IsDist(calls[2], InputsVV)
         /\ IsDist(calls[3], InputsUU)
         /\ IsDist(calls[4], InputsUV)

\* C15: the runner makes one sketch and one vMAG-vMAG dist for --vmag-dir alone,
\* one unbinned-unbinned dist and no sketch for --contigs alone, one sketch and
\* then the dists vMAG-vMAG, unbinned-unbinned, unbinned-vMAG for both; a dist
\* that names the sketch list comes after the sketch; the result files of the
\* dists have pairwise distinct names.
C15_RunnerCalls ==
    /\ pc = "concat" =>
          /\ RunnerCallsComplete
          /\ Len(results) = Cardinality({i \in 1..Len(calls) : calls[i].tool = "skani dist"})
    /\ \A j \in 1..Len(calls) :
          (calls[j].tool = "skani dist"
             /\ \E k \in 1..Len(calls[j].inputs) : calls[j].inputs[k] = SketchList)
          => \E i \in 1..(j - 1) : IsSketch(calls[i])
    /\ \A i, j \in 1..Len(results) : i # j => results[i] # results[j]
    /\ \A i, j \in 1..Len(calls) :
          (i # j /\ calls[i].tool = "skani dist" /\ calls[j].tool = "skani dist")
          => calls[i].outs # calls[j].outs

C15_Witness ==
    /\ pc = "concat"
    /\ Len(calls) = 4
    /\ Len(results) = 3
    /\ IsDist(calls[4], InputsUV)

C15_WitnessContigsOnly ==
    /\ pc = "concat"
    /\ Len(calls) = 1
    /\ calls[1].tool = "skani dist"

\* C16: no row whose reference name equals its query name is among the rows the
\* cluster means are computed from.
C16_NoSelfComparisonInMeans ==
    pc \in {"sum_save", "sum_done"} =>
        \A i \in 1..Len(ani_data) : ani_data[i].Ref_name # ani_data[i].Query_name

\* the p-th line of the clusters file has enough members to be a cluster
Qualifies(p) == Len(clusters_file[p]) >= min_cluster_size

QualifyingLines == {p \in 1..Len(clusters_file) : Qualifies(p)}

\* the qualifying lines that name m
LinesOf(m) == {p \in QualifyingLines : m \in Members(clusters_file[p])}

\* the position of line p among the qualifying lines, counted from 0
LineId(p) == Cardinality({q \in QualifyingLines : q < p})

\* C17: the id of a cluster is the 0-based position of its line among the lines
\* with at least min_cluster_size members: ids are consecutive from 0, grow with
\* line order, and a shorter line takes no id.
C17_IdIsPositionAmongQualifyingLines ==
    pc = "sum_done" =>
        LET m2c == Mapping
            ids == 0..(Cardinality(QualifyingLines) - 1)
        IN  /\ \A m \in DOMAIN m2c :
                  /\ m2c[m] \in ids
                  /\ \E p \in LinesOf(m) : m2c[m] = LineId(p)
            /\ \A p \in QualifyingLines :
                  \A m \in Members(clusters_file[p]) :
                      LinesOf(m) = {p} => m2c[m] = LineId(p)
            /\ \A i \in 1..Len(ani_data) :
                  ani_data[i].Ref_cluster = m2c[ani_data[i].Ref_name]

C17_Witness ==
    /\ pc = "sum_done"
    /\ clusters_file = <<<<"a">>, <<"a", "b">>>>
    /\ Mapping["a"] = 0 /\ Mapping["b"] = 0
    /\ Len(ani_data) > 0

C17_WitnessTwoIds ==
    /\ pc = "sum_done"
    /\ clusters_file = <<<<"a", "b">>, <<"c", "d">>>>
    /\ Mapping["b"] = 0 /\ Mapping["c"] = 1
    /\ \E i \in 1..Len(ani_data) : ani_data[i].Ref_cluster = 1

\* the last qualifying line that names m
LastLineOf(m) == CHOOSE p \in LinesOf(m) : \A q \in LinesOf(m) : q <= p

\* C18: the name -> id mapping has exactly the names of the qualifying lines;
\* each maps to one id, that of the last qualifying line naming it; every row
\* of the table is joined with at most one id per side.
C18_MappingIsLastWriterWins ==
    pc = "sum_done" =>
        LET m2c == Mapping IN
        /\ DOMAIN m2c = {m \in UNION {Members(clusters_file[p]) : p \in 1..Len(clusters_file)} :
                            LinesOf(m) # {}}
        /\ \A m \in DOMAIN m2c : m2c[m] = LineId(LastLineOf(m))
        /\ Len(ani_data) <= Len(skani_table)
        /\ \A i \in 1..Len(ani_data) :
              /\ ani_data[i].Ref_cluster = m2c[ani_data[i].Ref_name]
              /\ ani_data[i].Query_cluster = m2c[ani_data[i].Query_name]

C18_Witness ==
    /\ pc = "sum_done"
    /\ clusters_file = <<<<"a", "b">>, <<"a", "b", "c">>>>
    /\ Mapping["a"] = 1
    /\ \E i \in 1..Len(ani_data) : ani_data[i].Ref_name = "a" /\ ani_data[i].Ref_cluster = 1

C18_WitnessAbsent ==
    /\ pc = "sum_done"
    /\ clusters_file = <<<<"a">>, <<"b", "c">>>>
    /\ "a" \notin DOMAIN Mapping
    /\ \E i \in 1..Len(skani_table) : skani_table[i].Ref_name = "a"
    /\ Len(ani_data) > 0

\* C19: in the "skani" and "all" commands, whatever --outdir and --output are,
\* the file the preprocessor reads is the file the runner wrote its
\* concatenated table to.
C19_PreprocessorConsumesRunnerTable ==
    command \in {"skani", "all"} /\ args.skani # None =>
        PreprocessorReadsRunnerOutput

\* the flags each bundle's parser reads from the Namespace
SkaniReads == SkaniFlags
MclReads(ns) ==
    {IF hasattr(ns, "output_processed") THEN "output_processed" ELSE "input",
     "mcl_output", "inflation"}
SummaryReads(ns) ==
    (IF hasattr(ns, "output_processed") THEN {"output", "summary_output"}
     ELSE {"input", "output"}) \cup {"mcl_output", "threads"}

\* C20: after main.parse_args the bundles that are not None are: for "skani"
\* the skani bundle only, for "mcl" the mcl bundle only, for "summarize" the
\* summary bundle only, for "all" all three; a bundle is None exactly when a
\* flag its parser reads is not defined by the subcommand.
C20_BundlesMatchSubcommand ==
    pc = "parsed" =>
        /\ (args.skani # None) <=> (command \in {"skani", "all"})
        /\ (args.mcl # None) <=> (command \in {"mcl", "all"})
        /\ (args.summary # None) <=> (command \in {"summarize", "all"})
        /\ (args.skani = None) <=> ~ (SkaniReads \subseteq FlagsOf(command))
        /\ (args.mcl = None) <=> ~ (MclReads(ap_args) \subseteq FlagsOf(command))
        /\ (args.summary = None) <=> ~ (SummaryReads(ap_args) \subseteq FlagsOf(command))

C20_Witness ==
    /\ pc = "parsed"
    /\ command = "all"
    /\ args.skani # None /\ args.mcl # None /\ args.summary # None

C20_WitnessSkani ==
    /\ pc = "parsed"
    /\ command = "skani"
    /\ args.skani # None /\ args.mcl = None /\ args.summary = None

C20_WitnessMcl ==
    /\ pc = "parsed"
    /\ command = "mcl"
    /\ args.skani = None /\ args.mcl # None /\ args.summary = None

C20_WitnessSummarize ==
    /\ pc = "parsed"
    /\ command = "summarize"
    /\ args.skani = None /\ args.mcl = None /\ args.summary # None

(***************************************************************************)
(* SpecScr: the packaged preprocessor, then the stand-alone preprocess.py  *)
(* (src/python/preprocess.py), on the same table and the same --min-ani    *)
(* and --min-cov.                                                          *)
(***************************************************************************)
\* the divisor of the script's weight column
script_scale == 100

InitScr == InitPre

\* preprocess.py parse_args: check_range of both thresholds against
\* [0.0, 1.0], then both times 100
preprocess_script_parse_args(min_ani, min_cov) ==
    IF check_range(min_ani, 0, Den) /\ check_range(min_cov, 0, Den)
    THEN [raise |-> "none", min_ani |-> min_ani * 100, min_cov |-> min_cov * 100]
    ELSE [raise |-> "ValueError", min_ani |-> min_ani, min_cov |-> min_cov]

ScrParseArgs ==
    /\ pc = "pre_done"
    /\ LET a == preprocess_script_parse_args(ap_args["min_ani"], ap_args["min_cov"]) IN
       /\ a.raise = "none"
       /\ script_args' = [min_ani |-> a.min_ani, min_cov |-> a.min_cov]
    /\ pc' = "scr_main"
    /\ UNCHANGED <<orest, pvars, svars, cvars, script_output>>

\* preprocess.py main: the filter, AF the smaller of the two aligned
\* fractions, MCL = AF * ANI / 100, the columns Ref_name, Query_name, MCL
\* written without a header
preprocess_script_main(rows, min_ani, min_cov) ==
    LET Keep(r) ==
          /\ r.Ref_name # r.Query_name
          /\ AtLeast(r.ANI, min_ani)
          /\ (AtLeast(r.Align_fraction_ref, min_cov)
              \/ AtLeast(r.Align_fraction_query, min_cov))
        Out(r) ==
          LET AF == Min2(r.Align_fraction_query, r.Align_fraction_ref) IN
          [Ref_name |-> r.Ref_name, Query_name |-> r.Query_name,
           weight |-> Quot(AF * r.ANI, script_scale)]
    IN  MapRows(Filter(rows, Keep), Out)

ScrMain ==
    /\ pc = "scr_main"
    /\ script_output' = preprocess_script_main(input_table, script_args.min_ani,
                                               script_args.min_cov)
    /\ pc' = "scr_done"
    /\ UNCHANGED <<orest, pvars, svars, cvars, script_args>>

NextScr ==
    \/ PreArgs
    \/ PreNew
    \/ PreProcess
    \/ PreSave
    \/ ScrParseArgs
    \/ ScrMain

SpecScr == InitScr /\ [][NextScr]_vars

\* two exact quotients have the same value
SameQuot(v, w) == v.num * w.den = w.num * v.den

\* the two edge lists have the same rows in the same order as far as source
\* and target go
C21_SameEdges ==
    pc = "scr_done" =>
        /\ Len(script_output) = Len(edge_list)
        /\ \A j \in 1..Len(edge_list) :
              /\ script_output[j].Ref_name = edge_list[j].Ref_name
              /\ script_output[j].Query_name = edge_list[j].Query_name

\* C21: the stand-alone script and SkaniPreprocessor.process_and_save write the
\* same edge list for the same table and thresholds: the same rows, in the
\* same order, with the same source, target and weight.
C21_ScriptWritesSameEdgeList ==
    pc = "scr_done" =>
        /\ Len(script_output) = Len(edge_list)
        /\ \A j \in 1..Len(edge_list) :
              /\ script_output[j].Ref_name = edge_list[j].Ref_name
              /\ script_output[j].Query_name = edge_list[j].Query_name
              /\ SameQuot(script_output[j].weight, edge_list[j].weight)
=============================================================================
